---- MODULE Spec2Model ----
(***************************************************************************)
(* Model of the mock profile service, mock-server/server.js: an Express    *)
(* application with two routes, GET and PUT /api/users/:userId, over the   *)
(* module-level object literal `users`; and of the two profile forms that  *)
(* are its clients, TraditionalForm and ModernForm.                        *)
(*                                                                         *)
(* JavaScript values are modelled by what the handlers do with them:       *)
(*   - a JSON value of a request body is a record [t, v]: t is its type    *)
(*     and v a sequence of one-character strings (the text of a string,    *)
(*     the decimal text of a number, the joined text of an array, the own  *)
(*     keys of an object);                                                 *)
(*   - a user object is a function from property names to JSON values;     *)
(*   - `users` is an ordinary object: its own properties plus the          *)
(*     prototype it inherits from (Object.prototype unless replaced).      *)
(***************************************************************************)
EXTENDS Integers, Sequences, FiniteSets, Bags, TLC

VARIABLES
  users,     \* the object `users`: [own, proto]
  inflight,  \* bag of requests whose handler waits in `await delay(ms)`
  nreq,      \* number of requests received so far
  ndone,     \* number of requests that have been answered so far
  last,      \* the exchange completed most recently: [req, out]
  commits,   \* history: per path identifier, the PUTs that committed, in
             \* commit order, each with the body of its 200 response
  overlap,   \* history: the path identifiers that had two PUTs in flight
             \* at the same time
  form,      \* TraditionalForm: the values of its sixteen useState hooks
  userIdProp, \* TraditionalForm: its userId prop
  pending,   \* TraditionalForm: the effects scheduled by the last render
  net,       \* TraditionalForm: its requests that have not settled yet
  issued,    \* number of requests TraditionalForm has sent so far
  loaded,    \* history: what the fetch that settled last was sent for
  modern     \* ModernForm: isDirty, isSaving and its PUTs in flight

\* the state of the service and the state of the forms
svars == <<users, inflight, nreq, ndone, last, commits, overlap>>
cvars == <<form, userIdProp, pending, net, issued, loaded, modern>>

vars == <<users, inflight, nreq, ndone, last, commits, overlap,
          form, userIdProp, pending, net, issued, loaded, modern>>

(***************************************************************************)
(* Bounds of the model.                                                    *)
(***************************************************************************)
MaxReq == 3

(***************************************************************************)
(* JSON values.                                                            *)
(***************************************************************************)
Undefined == [t |-> "undefined", v |-> <<>>]
Null == [t |-> "null", v |-> <<>>]
Str(s) == [t |-> "string", v |-> s]
Num(s) == [t |-> "number", v |-> s]
\* the array [s] of one string: v is the text of s, which is also what
\* converting the array to a string gives
ArrOf(s) == [t |-> "array", v |-> s]
\* an object parsed from JSON: v lists its own keys, each holding the number 1
ObjWith(keys) == [t |-> "object", v |-> keys]

\* ToBoolean, as applied by `!x` and `x || y`
Truthy(x) ==
  CASE x.t = "undefined" -> FALSE
    [] x.t = "null" -> FALSE
    [] x.t = "string" -> x.v # <<>>
    [] x.t = "number" -> x.v # <<"0">>
    [] x.t = "boolean" -> x.v = <<"t","r","u","e">>
    [] OTHER -> TRUE

OrNullIdentity(x) == x

\* `x || null`
OrNull(x) == IF Truthy(x) THEN x ELSE Null

\* does the language's ToString(x) throw? An object parsed from JSON with an own "toString"
\* key holds a non-callable there, and valueOf does not give a primitive.
ToStringThrows(x) ==
  /\ x.t = "object"
  /\ \E i \in 1..Len(x.v) : x.v[i] = "toString"

ObjectObject ==
  <<"[","o","b","j","e","c","t"," ","O","b","j","e","c","t","]">>

\* ToString(x) of the language, where it does not throw
JSToString(x) ==
  CASE x.t = "undefined" -> <<"u","n","d","e","f","i","n","e","d">>
    [] x.t = "null" -> <<"n","u","l","l">>
    [] x.t = "object" -> ObjectObject
    [] OTHER -> x.v

(***************************************************************************)
(* const emailRegex = /^[^\s@]+@[^\s@]+\.[^\s@]+$/                          *)
(***************************************************************************)
WhiteSpace == {" ", "\t", "\n", "\r"}

\* [^\s@]+ over s[from..to]
NotSpaceAt(s, from, to) ==
  /\ from <= to
  /\ \A i \in from..to : s[i] \notin WhiteSpace /\ s[i] # "@"

\* emailRegex.test(s) for a string s: positions a of "@" and d of "\."
EmailRegexTest(s) ==
  \E a \in 1..Len(s) : \E d \in 1..Len(s) :
     /\ s[a] = "@"
     /\ s[d] = "."
     /\ a < d
     /\ NotSpaceAt(s, 1, a - 1)
     /\ NotSpaceAt(s, a + 1, d - 1)
     /\ NotSpaceAt(s, d + 1, Len(s))

(***************************************************************************)
(* The seeded records.                                                     *)
(***************************************************************************)
User(id, email, firstName, lastName, phoneNumber, bio) ==
  [id |-> id, email |-> email, firstName |-> firstName,
   lastName |-> lastName, phoneNumber |-> phoneNumber, bio |-> bio]

User1 ==
  User(Str(<<"1">>),
       Str(<<"j","o","h","n",".","d","o","e","@","e","x","a","m","p","l","e",
             ".","c","o","m">>),
       Str(<<"J","o","h","n">>),
       Str(<<"D","o","e">>),
       Str(<<"+","1","-","5","5","5","-","1","2","3","-","4","5","6","7">>),
       Str(<<"S","o","f","t","w","a","r","e"," ","e","n","g","i","n","e","e",
             "r"," ","p","a","s","s","i","o","n","a","t","e"," ","a","b","o",
             "u","t"," ","b","u","i","l","d","i","n","g"," ","g","r","e","a",
             "t"," ","u","s","e","r"," ","e","x","p","e","r","i","e","n","c",
             "e","s",".">>))

User2 ==
  User(Str(<<"2">>),
       Str(<<"j","a","n","e",".","s","m","i","t","h","@","e","x","a","m","p",
             "l","e",".","c","o","m">>),
       Str(<<"J","a","n","e">>),
       Str(<<"S","m","i","t","h">>),
       Null,
       Str(<<"P","r","o","d","u","c","t"," ","d","e","s","i","g","n","e","r",
             " ","w","h","o"," ","l","o","v","e","s"," ","c","r","e","a","t",
             "i","n","g"," ","i","n","t","u","i","t","i","v","e"," ","i","n",
             "t","e","r","f","a","c","e","s",".">>))

User3 ==
  User(Str(<<"3">>),
       Str(<<"b","o","b",".","w","i","l","s","o","n","@","e","x","a","m","p",
             "l","e",".","c","o","m">>),
       Str(<<"B","o","b">>),
       Str(<<"W","i","l","s","o","n">>),
       Str(<<"+","1","-","5","5","5","-","9","8","7","-","6","5","4","3">>),
       Null)

SeedIds == {"1", "2", "3"}

\* const users = { '1': {...}, '2': {...}, '3': {...} }: an object literal,
\* so its prototype is Object.prototype (proto = <<>>)
InitialUsers ==
  [own |-> [k \in SeedIds |-> IF k = "1" THEN User1
                              ELSE IF k = "2" THEN User2 ELSE User3],
   proto |-> <<>>]

(***************************************************************************)
(* Property access on `users`.  A value read from it is a record           *)
(* [kind, rec, prim]: one of its own user objects, something inherited     *)
(* (a function of Object.prototype, Object.prototype itself, a property of *)
(* a replaced prototype), or undefined.                                    *)
(***************************************************************************)
NoRec == [k \in {} |-> Undefined]

UndefinedVal == [kind |-> "undefined", rec |-> NoRec, prim |-> Undefined]
ObjectVal(r) == [kind |-> "object", rec |-> r, prim |-> Undefined]
FunctionVal == [kind |-> "function", rec |-> NoRec, prim |-> Undefined]
ObjectPrototypeVal == [kind |-> "objproto", rec |-> NoRec, prim |-> Undefined]
PrimVal(x) == [kind |-> "prim", rec |-> NoRec, prim |-> x]

\* the methods every object literal inherits from Object.prototype
ObjectPrototypeKeys ==
  {"constructor", "toString", "toLocaleString", "valueOf", "hasOwnProperty",
   "isPrototypeOf", "propertyIsEnumerable", "__defineGetter__",
   "__defineSetter__", "__lookupGetter__", "__lookupSetter__"}

\* users[k]
Get(u, k) ==
  IF k = "__proto__"
  THEN IF u.proto = <<>> THEN ObjectPrototypeVal ELSE ObjectVal(u.proto[1])
  ELSE IF k \in DOMAIN u.own THEN ObjectVal(u.own[k])
  ELSE IF u.proto # <<>> /\ k \in DOMAIN u.proto[1]
       THEN PrimVal(u.proto[1][k])
  ELSE IF k \in ObjectPrototypeKeys THEN FunctionVal
  ELSE UndefinedVal

SetNowhere(u, k, r) == u

\* users[k] = r, for an object r
Set(u, k, r) ==
  IF k = "__proto__"
  THEN [u EXCEPT !.proto = <<r>>]
  ELSE [u EXCEPT !.own = (k :> r) @@ u.own]

\* ToBoolean of a value read from users
TruthyVal(x) ==
  CASE x.kind = "undefined" -> FALSE
    [] x.kind = "prim" -> Truthy(x.prim)
    [] OTHER -> TRUE

\* the own enumerable properties `...x` copies
Spread(x) ==
  CASE x.kind = "object" -> x.rec
    [] x.kind = "prim" /\ x.prim.t = "string" ->
         [key \in {ToString(j - 1) : j \in 1..Len(x.prim.v)} |->
            Str(<<x.prim.v[CHOOSE j \in 1..Len(x.prim.v) : ToString(j - 1) = key]>>)]
    [] x.kind = "prim" /\ x.prim.t = "array" -> [key \in {"0"} |-> Str(x.prim.v)]
    [] x.kind = "prim" /\ x.prim.t = "object" ->
         [key \in {x.prim.v[i] : i \in 1..Len(x.prim.v)} |-> Num(<<"1">>)]
    [] OTHER -> NoRec

\* JSON.stringify(x) as the client parses it: properties holding undefined
\* are dropped, a function gives no body at all
Stringify(x) ==
  CASE x.kind = "object" ->
         ObjectVal([k \in {f \in DOMAIN x.rec : x.rec[f].t # "undefined"} |-> x.rec[k]])
    [] x.kind = "objproto" -> ObjectVal(NoRec)
    [] x.kind = "function" -> UndefinedVal
    [] OTHER -> x

(***************************************************************************)
(* Responses.  res.json(x) answers 200 with body Stringify(x);             *)
(* res.status(n).json({message}) answers n with the message, here the      *)
(* sequence of the parts it is concatenated from.                          *)
(***************************************************************************)
ResJson(x) == [status |-> 200, body |-> Stringify(x), message |-> <<>>]
ResMessage(n, parts) == [status |-> n, body |-> UndefinedVal, message |-> parts]

NotFound(userId) == ResMessage(404, <<"User with ID ", userId, " not found">>)
RequiredFields ==
  ResMessage(400, <<"Email, firstName, and lastName are required fields">>)
InvalidEmail == ResMessage(400, <<"Invalid email format">>)
InternalError == ResMessage(500, <<"Internal server error">>)
SomethingWrongErrStatus == ResMessage(400, <<"Something went wrong!">>)
SomethingWrong == ResMessage(500, <<"Something went wrong!">>)

(***************************************************************************)
(* Requests.  A request is [method, userId, body]; body.kind tells what    *)
(* express.json() made of the payload: "object" (parsed, f holds the       *)
(* properties the handler reads, Undefined where the key is missing),      *)
(* "none" (nothing to parse) or "malformed" (the parser fails).            *)
(***************************************************************************)
Fields(id, email, firstName, lastName, phoneNumber, bio) ==
  [id |-> id, email |-> email, firstName |-> firstName,
   lastName |-> lastName, phoneNumber |-> phoneNumber, bio |-> bio]

NoFields ==
  Fields(Undefined, Undefined, Undefined, Undefined, Undefined, Undefined)

ObjectBody(f) == [kind |-> "object", f |-> f]
NoBody == [kind |-> "none", f |-> NoFields]
MalformedBody == [kind |-> "malformed", f |-> NoFields]

Req(method, userId, body) == [method |-> method, userId |-> userId, body |-> body]

\* the payloads sent
EmailA == Str(<<"a","@","b",".","c">>)
EmailB == Str(<<"d",".","e","@","f",".","g",".","h">>)

ValidA ==
  Fields(Undefined, EmailA, Str(<<"A">>), Str(<<"B">>), Str(<<"5">>), Str(<<"x">>))
ValidB ==
  Fields(Str(<<"9">>), EmailB, Str(<<"C">>), Str(<<"D">>), Undefined, Str(<<>>))

ValidBodies == {ValidA, ValidB}

\* a required field missing, empty or otherwise falsy
MissingBodies ==
  { [ValidA EXCEPT !.email = Undefined],
    [ValidA EXCEPT !.email = Str(<<>>)],
    [ValidA EXCEPT !.firstName = Str(<<>>)],
    [ValidA EXCEPT !.lastName = Null],
    NoFields }

\* strings the pattern rejects
BadEmails ==
  { Str(<<"n","o","t","-","a","n","-","e","m","a","i","l">>),
    Str(<<"a","@","b">>),
    Str(<<"a","@","@","b",".","c">>),
    Str(<<"a"," ","@","b",".","c">>),
    Str(<<"a","@",".","c">>),
    Str(<<"a","@","b",".","c","\n">>) }

\* emails that are not strings
OddEmails ==
  { ArrOf(<<"a","@","b",".","c">>),
    ObjWith(<<>>),
    ObjWith(<<"toString">>) }

EmailBodies == {[ValidA EXCEPT !.email = e] : e \in BadEmails \cup OddEmails}

PathIds == {"1", "3", "9", "constructor", "__proto__", "email"}

Requests ==
  {Req("GET", k, NoBody) : k \in PathIds}
  \cup {Req("GET", "1", MalformedBody)}
  \cup {Req("PUT", k, ObjectBody(f)) : k \in PathIds \ {"3", "9"}, f \in ValidBodies}
  \cup {Req("PUT", "1", ObjectBody(f)) : f \in MissingBodies \cup EmailBodies}
  \cup {Req("PUT", "1", b) : b \in {NoBody, MalformedBody}}
  \cup {Req("PUT", "9", ObjectBody(f)) :
          f \in {ValidA, [ValidA EXCEPT !.email = Str(<<"a","@","b">>)]}}

(***************************************************************************)
(* app.get('/api/users/:userId', ...): what runs after `await delay(500)`. *)
(* Nothing in it throws, so its catch block is never entered.              *)
(***************************************************************************)
GetHandlerSeeded(u, req) ==
  LET userId == req.userId
      user == Get(InitialUsers, userId)
  IN IF ~TruthyVal(user)
     THEN [users |-> u, out |-> <<NotFound(userId)>>]
     ELSE [users |-> u, out |-> <<ResJson(user)>>]

GetHandler(u, req) ==
  LET userId == req.userId
      user == Get(u, userId)
  IN IF ~TruthyVal(user)
     THEN [users |-> u, out |-> <<NotFound(userId)>>]
     ELSE [users |-> u, out |-> <<ResJson(user)>>]

(***************************************************************************)
(* app.put('/api/users/:userId', ...): what runs after `await delay(800)`. *)
(* bodyUndefined: whether req.body is undefined (rather than {}) when      *)
(* express.json() parsed nothing, which depends on the express version.    *)
(***************************************************************************)
NewFieldsSwapped(f) ==
  [email |-> f.email, firstName |-> f.lastName, lastName |-> f.firstName,
   phoneNumber |-> OrNull(f.phoneNumber), bio |-> OrNull(f.bio)]

NewFields(f) ==
  [email |-> f.email, firstName |-> f.firstName, lastName |-> f.lastName,
   phoneNumber |-> OrNull(f.phoneNumber), bio |-> OrNull(f.bio)]

UpdatedKeepsOptionals(user, f) ==
  LET old == Spread(user)
      keep(k) == IF Truthy(f[k]) THEN f[k]
                 ELSE IF k \in DOMAIN old THEN old[k] ELSE Null
  IN [NewFields(f) EXCEPT !.phoneNumber = keep("phoneNumber"),
                          !.bio = keep("bio")] @@ old

\* { ...user, email, firstName, lastName, phoneNumber: ..., bio: ... }
Updated(user, f) == NewFields(f) @@ Spread(user)

RequiredMissingAll(f) ==
  ~Truthy(f.email) /\ ~Truthy(f.firstName) /\ ~Truthy(f.lastName)

\* !email || !firstName || !lastName
RequiredMissing(f) ==
  ~Truthy(f.email) \/ ~Truthy(f.firstName) \/ ~Truthy(f.lastName)

PutHandler(u, req, bodyUndefined) ==
  LET userId == req.userId
      user == Get(u, userId)
      f == req.body.f
      committed == Set(u, userId, Updated(user, f))
  IN IF ~TruthyVal(user)
       THEN [users |-> u, out |-> <<NotFound(userId)>>]
     ELSE IF req.body.kind = "none" /\ bodyUndefined
       THEN [users |-> u, out |-> <<InternalError>>]
     ELSE IF RequiredMissing(f)
       THEN [users |-> u, out |-> <<RequiredFields>>]
     ELSE IF ToStringThrows(f.email)
       THEN [users |-> u, out |-> <<InternalError>>]
     ELSE IF ~EmailRegexTest(JSToString(f.email))
       THEN [users |-> u, out |-> <<InvalidEmail>>]
     ELSE [users |-> committed, out |-> <<ResJson(Get(committed, userId))>>]

(***************************************************************************)
(* TraditionalForm({ userId }).  `form` holds the values of its useState   *)
(* hooks under their names; a message that is null is the empty sequence,  *)
(* any other is the sequence of the parts of its text.                     *)
(***************************************************************************)
NoMessage == <<>>

EmptyStr == Str(<<>>)

\* the values of the useState hooks at the first render
InitialForm ==
  [firstName |-> EmptyStr, lastName |-> EmptyStr, email |-> EmptyStr,
   phoneNumber |-> EmptyStr, bio |-> EmptyStr,
   originalFirstName |-> EmptyStr, originalLastName |-> EmptyStr,
   originalEmail |-> EmptyStr, originalPhoneNumber |-> EmptyStr,
   originalBio |-> EmptyStr,
   isLoadingData |-> TRUE, isSaving |-> FALSE,
   fetchError |-> NoMessage, saveError |-> NoMessage,
   successMessage |-> NoMessage,
   isDirty |-> FALSE]

\* App renders <TraditionalForm userId={userId} /> with userId = '1'
InitialUserId == "1"

\* after the first render both effects are scheduled
FormsInit ==
  /\ form = InitialForm
  /\ userIdProp = InitialUserId
  /\ pending = [fetch |-> TRUE, dirty |-> TRUE]
  /\ net = {}
  /\ issued = 0
  /\ loaded = [n |-> 0, userId |-> ""]
  /\ modern = [isDirty |-> FALSE, isSaving |-> FALSE, puts |-> 0]

(***************************************************************************)
(* The state machine.                                                      *)
(***************************************************************************)
NoReq == Req("NONE", "", NoBody)

Init ==
  /\ users = InitialUsers
  /\ inflight = EmptyBag
  /\ nreq = 0
  /\ ndone = 0
  /\ last = [req |-> NoReq, out |-> <<>>]
  /\ commits = [k \in PathIds |-> <<>>]
  /\ overlap = {}
  /\ FormsInit

ReceiveBlocking(r) ==
  /\ nreq < MaxReq
  /\ r.body.kind # "malformed"
  /\ inflight = EmptyBag
  /\ inflight' = SetToBag({r})
  /\ nreq' = nreq + 1
  /\ UNCHANGED <<users, ndone, last, commits, overlap>>
  /\ UNCHANGED cvars

\* a request arrives, express.json() parses it, the route handler starts
\* and suspends in `await delay(ms)`
Receive(r) ==
  /\ nreq < MaxReq
  /\ r.body.kind # "malformed"
  /\ inflight' = inflight (+) SetToBag({r})
  /\ nreq' = nreq + 1
  /\ overlap' = IF /\ r.method = "PUT"
                   /\ \E q \in BagToSet(inflight) :
                        q.method = "PUT" /\ q.userId = r.userId
                THEN overlap \cup {r.userId}
                ELSE overlap
  /\ UNCHANGED <<users, ndone, last, commits>>
  /\ UNCHANGED cvars

\* a request arrives whose payload express.json() cannot parse: it calls
\* next(err), no route runs, the error handling middleware answers
ReceiveMalformed(r) ==
  /\ nreq < MaxReq
  /\ r.body.kind = "malformed"
  /\ nreq' = nreq + 1
  /\ ndone' = ndone + 1
  /\ last' = [req |-> r, out |-> <<SomethingWrong>>]
  /\ UNCHANGED <<users, inflight, commits, overlap>>
  /\ UNCHANGED cvars

\* the delay of a GET elapses and the handler runs to its end
HandleGet(r) ==
  /\ BagIn(r, inflight)
  /\ r.method = "GET"
  /\ LET res == GetHandler(users, r)
     IN /\ users' = res.users
        /\ last' = [req |-> r, out |-> res.out]
  /\ inflight' = inflight (-) SetToBag({r})
  /\ ndone' = ndone + 1
  /\ UNCHANGED <<nreq, commits, overlap>>
  /\ UNCHANGED cvars

\* the delay of a PUT elapses and the handler runs to its end
HandlePut(r) ==
  /\ BagIn(r, inflight)
  /\ r.method = "PUT"
  /\ \E bodyUndefined \in BOOLEAN :
       LET res == PutHandler(users, r, bodyUndefined)
       IN /\ users' = res.users
          /\ last' = [req |-> r, out |-> res.out]
          /\ commits' =
               IF res.out # <<>> /\ res.out[1].status = 200
               THEN [commits EXCEPT ![r.userId] =
                       Append(@, [f |-> r.body.f, body |-> res.out[1].body])]
               ELSE commits
  /\ inflight' = inflight (-) SetToBag({r})
  /\ ndone' = ndone + 1
  /\ UNCHANGED <<nreq, overlap>>
  /\ UNCHANGED cvars

Next ==
  \/ \E r \in Requests : Receive(r)
  \/ \E r \in Requests : ReceiveMalformed(r)
  \/ \E r \in Requests : HandleGet(r)
  \/ \E r \in Requests : HandlePut(r)

Spec == Init /\ [][Next]_vars

(***************************************************************************)
(* Vocabulary of the properties.                                           *)
(***************************************************************************)
\* the step answers a request: last' is the exchange it completed
Answers == ndone' = ndone + 1

EditableKeys == {"email", "firstName", "lastName", "phoneNumber", "bio"}

\* the five editable fields of a stored record
Editable(rec) == [k \in EditableKeys |-> rec[k]]

\* an optional field of a payload that is left out or given as ""
Omitted(x) == x = Undefined \/ x = Str(<<>>)

\* a payload as it is to be stored: optional fields left out become null
Normalized(f) ==
  [k \in EditableKeys |->
     IF k \in {"phoneNumber", "bio"} /\ (Omitted(f[k]) \/ f[k] = Null)
     THEN Null ELSE f[k]]

\* the path identifiers under which the store holds a record
StoredIds == DOMAIN users.own

\* the last exchange is a GET that reached its route
LastIsGet ==
  /\ last.req.method = "GET"
  /\ last.req.body.kind # "malformed"

\* a required field of the payload is left out or empty
LacksRequired(f) ==
  Omitted(f.email) \/ Omitted(f.firstName) \/ Omitted(f.lastName)

\* x is a string of the shape local-part@domain.tld: no white space, one
\* "@" with something before it, and after it a "." with something on
\* both sides
EmailShaped(x) ==
  /\ x.t = "string"
  /\ \A i \in 1..Len(x.v) : x.v[i] \notin WhiteSpace
  /\ Cardinality({i \in 1..Len(x.v) : x.v[i] = "@"}) = 1
  /\ LET at == CHOOSE i \in 1..Len(x.v) : x.v[i] = "@"
     IN /\ at > 1
        /\ \E d \in (at + 2)..(Len(x.v) - 1) : x.v[d] = "."

----------------------------------------------------------------------------
\* C1: once PUTs to an identifier have committed, the five editable fields
\* of the record found under it are the normalized fields of one of the
\* committed payloads, all five from the same payload.
C1_OneOfThePayloads ==
  \A k \in PathIds :
     commits[k] # <<>> =>
       /\ Get(users, k).kind = "object"
       /\ EditableKeys \subseteq DOMAIN Get(users, k).rec
       /\ \E i \in 1..Len(commits[k]) :
            Editable(Get(users, k).rec) = Normalized(commits[k][i].f)

\* two different payloads were in flight together for "1", both have
\* committed, nothing is in flight and a GET for "1" was answered last
C1_Witness ==
  /\ "1" \in overlap
  /\ Len(commits["1"]) = 2
  /\ commits["1"][1].f # commits["1"][2].f
  /\ inflight = EmptyBag
  /\ LastIsGet /\ last.req.userId = "1"
  /\ last.out[1].status = 200

\* C2: the store holds a record for exactly the three seeded identifiers.
C2_OnlySeededRecords ==
  /\ DOMAIN users.own = SeedIds
  /\ users.proto = <<>>

\* C3: a GET for an identifier that has no stored record is answered 404
\* with a message that names the identifier.
C3_UnknownIs404 ==
  (LastIsGet /\ last.req.userId \notin StoredIds) =>
     /\ Len(last.out) = 1
     /\ last.out[1].status = 404
     /\ \E i \in 1..Len(last.out[1].message) :
          last.out[1].message[i] = last.req.userId

\* C4: a GET for an identifier that has a stored record is answered 200
\* with exactly the record the store holds.
C4_KnownReturnsStored ==
  (LastIsGet /\ last.req.userId \in StoredIds) =>
     /\ Len(last.out) = 1
     /\ last.out[1].status = 200
     /\ last.out[1].body = ObjectVal(users.own[last.req.userId])
     /\ last.out[1].message = <<>>

\* a GET for "1" answered after an update of "1" has committed
C4_Witness ==
  /\ LastIsGet /\ last.req.userId = "1"
  /\ commits["1"] # <<>>
  /\ users.own["1"] # User1

\* C5: a PUT to a known identifier whose payload lacks a required field,
\* or has it empty, is answered 400 with a message and changes no record.
C5_MissingRequired ==
  [][(/\ Answers
      /\ last'.req.method = "PUT"
      /\ last'.req.body.kind = "object"
      /\ last'.req.userId \in StoredIds
      /\ LacksRequired(last'.req.body.f))
     => (/\ Len(last'.out) = 1
         /\ last'.out[1].status = 400
         /\ last'.out[1].message # <<>>
         /\ users' = users)]_vars

\* a PUT to "1" with an empty firstName was answered
C5_Witness ==
  /\ last.req.method = "PUT"
  /\ last.req.userId = "1"
  /\ last.req.body.kind = "object"
  /\ last.req.body.f.firstName = Str(<<>>)
  /\ last.out[1].status = 400

\* C6: a PUT to a known identifier with firstName and lastName present and
\* an email that is not of the shape local-part@domain.tld is answered 400
\* and changes no record.
C6_BadEmailIs400 ==
  [][(/\ Answers
      /\ last'.req.method = "PUT"
      /\ last'.req.body.kind = "object"
      /\ last'.req.userId \in StoredIds
      /\ ~LacksRequired([last'.req.body.f EXCEPT !.email = Str(<<"x">>)])
      /\ ~EmailShaped(last'.req.body.f.email))
     => (/\ Len(last'.out) = 1
         /\ last'.out[1].status = 400
         /\ users' = users)]_vars

\* C7: a GET for k answered after a PUT to k committed, and before another
\* one does, returns the body that PUT returned, with the submitted email,
\* firstName and lastName.
C7_FetchReflectsUpdate ==
  \A k \in PathIds :
     (LastIsGet /\ last.req.userId = k /\ commits[k] # <<>>) =>
        LET c == commits[k][Len(commits[k])]
        IN /\ Len(last.out) = 1
           /\ last.out[1].status = 200
           /\ last.out[1].body = c.body
           /\ c.body.kind = "object"
           /\ c.body.rec.email = c.f.email
           /\ c.body.rec.firstName = c.f.firstName
           /\ c.body.rec.lastName = c.f.lastName

\* a GET for "1" answered after the PUT of ValidB to "1" committed last
C7_Witness ==
  /\ LastIsGet /\ last.req.userId = "1"
  /\ commits["1"] # <<>>
  /\ commits["1"][Len(commits["1"])].f = ValidB
  /\ last.out[1].body.rec.email = EmailB

\* the records the store holds, the replaced prototype included
StoredRecords == {users.own[k] : k \in DOMAIN users.own}
                   \cup {users.proto[i] : i \in 1..Len(users.proto)}

\* C8: a PUT that commits with phoneNumber or bio left out (or "") stores
\* null for it, whatever the record held before; and no stored record ever
\* holds "" (or nothing at all) for phoneNumber or bio.
C8_OptionalsNormalized ==
  /\ [][(Answers /\ last'.req.method = "PUT" /\ last'.out[1].status = 200)
        => LET f == last'.req.body.f
               rec == Get(users', last'.req.userId).rec
           IN /\ Omitted(f.phoneNumber) => rec.phoneNumber = Null
              /\ Omitted(f.bio) => rec.bio = Null]_vars
  /\ [](\A rec \in StoredRecords :
          /\ {"phoneNumber", "bio"} \subseteq DOMAIN rec
          /\ ~Omitted(rec.phoneNumber)
          /\ ~Omitted(rec.bio))

\* record "1", seeded with a phone number, holds null for phoneNumber and
\* bio after ValidB (no phoneNumber, bio "") committed
C8_Witness ==
  /\ commits["1"] # <<>>
  /\ commits["1"][Len(commits["1"])].f = ValidB
  /\ User1.phoneNumber # Null
  /\ users.own["1"].phoneNumber = Null
  /\ users.own["1"].bio = Null

\* C9: the record stored under key k has id k (the seeded keys have one
\* character, so the text of k is <<k>>).
C9_IdIsKey ==
  \A k \in StoredIds :
     /\ "id" \in DOMAIN users.own[k]
     /\ users.own[k].id = Str(<<k>>)

\* the request cannot be processed: its payload does not parse, or the
\* PUT reaches the email pattern with an email whose conversion to a
\* string throws
Faults(u, r) ==
  \/ r.body.kind = "malformed"
  \/ /\ r.method = "PUT"
     /\ r.body.kind = "object"
     /\ TruthyVal(Get(u, r.userId))
     /\ Truthy(r.body.f.firstName) /\ Truthy(r.body.f.lastName)
     /\ r.body.f.email.t = "object"
     /\ \E i \in 1..Len(r.body.f.email.v) : r.body.f.email.v[i] = "toString"

\* C10: every request gets exactly one response; a fault while processing
\* it gives 500 with a message, and a 500 leaves the store unchanged.
C10_FaultIs500 ==
  [][Answers =>
       /\ Len(last'.out) = 1
       /\ Faults(users, last'.req) => last'.out[1].status = 500
       /\ last'.out[1].status = 500 =>
            /\ last'.out[1].message # <<>>
            /\ users' = users]_vars

\* a PUT whose email cannot be converted to a string was answered 500
C10_Witness ==
  /\ last.req.method = "PUT"
  /\ last.req.body.kind = "object"
  /\ last.req.body.f.email = ObjWith(<<"toString">>)
  /\ last.out[1].status = 500

----------------------------------------------------------------------------
\* C11: a PUT answers with the first check that fails: no stored record
\* under the path identifier (404 with the not-found message), then a
\* required field left out or empty (400 with the required-fields message),
\* then an email string the pattern rejects (400 with the invalid-format
\* message).
C11_CheckOrder ==
  [][(/\ Answers
      /\ last'.req.method = "PUT"
      /\ last'.req.body.kind = "object")
     => LET r == last'.req
            f == r.body.f
        IN IF r.userId \notin StoredIds
             THEN last'.out = <<NotFound(r.userId)>>
           ELSE IF LacksRequired(f)
             THEN last'.out = <<RequiredFields>>
           ELSE (f.email.t = "string" /\ ~EmailShaped(f.email))
                  => last'.out = <<InvalidEmail>>]_vars

\* what a request for path identifier k finds in the store
Found(u, k) == Get(u, k)

\* C12: the only change a step makes to what the store holds for any path
\* identifier is a PUT answered 200 changing it for its own identifier.
C12_OnlyOwnRecordChanges ==
  [][\A k \in PathIds :
       Found(users', k) # Found(users, k) =>
          /\ Answers
          /\ last'.req.method = "PUT"
          /\ last'.req.userId = k
          /\ last'.out[1].status = 200]_vars

\* C14: a PUT answered 200 returns exactly its own email, firstName,
\* lastName and normalized phoneNumber and bio, which is also what the store
\* then holds for its identifier; and the store holds for every identifier
\* the payload of the PUT that committed last.
C14_AtomicLastWriteWins ==
  /\ [][(Answers /\ last'.req.method = "PUT" /\ last'.out[1].status = 200)
        => /\ last'.out[1].body.kind = "object"
           /\ Editable(last'.out[1].body.rec) = Normalized(last'.req.body.f)
           /\ Get(users', last'.req.userId) = last'.out[1].body]_vars
  /\ [](\A k \in PathIds :
          commits[k] # <<>> =>
            Editable(Get(users, k).rec)
              = Normalized(commits[k][Len(commits[k])].f))

\* a PUT to "1" was answered 200 with its own payload while a PUT of
\* another payload to "1" is still in flight
C14_Witness ==
  /\ last.req.method = "PUT"
  /\ last.req.userId = "1"
  /\ last.out[1].status = 200
  /\ Editable(last.out[1].body.rec) = Normalized(last.req.body.f)
  /\ \E q \in BagToSet(inflight) :
       /\ q.method = "PUT" /\ q.userId = "1"
       /\ q.body.f \in ValidBodies /\ q.body.f # last.req.body.f

\* x is a non-empty string
NonEmptyString(x) == x.t = "string" /\ x.v # <<>>

\* C15: every stored record has non-empty strings for email, firstName and
\* lastName, and an email of the shape local-part@domain.tld.
C15_RequiredFieldsWellFormed ==
  \A rec \in StoredRecords :
     /\ {"email", "firstName", "lastName"} \subseteq DOMAIN rec
     /\ NonEmptyString(rec.email)
     /\ NonEmptyString(rec.firstName)
     /\ NonEmptyString(rec.lastName)
     /\ EmailShaped(rec.email)

----------------------------------------------------------------------------
(***************************************************************************)
(* Timers.  `delay` resolves from a setTimeout callback, and a timer that  *)
(* was set fires: the handler of every request in flight is eventually     *)
(* resumed.  LiveSpec serves the requests of LiveRequests under that       *)
(* fairness.                                                               *)
(***************************************************************************)
LiveRequests ==
  { Req("GET", "1", NoBody),
    Req("GET", "9", NoBody),
    Req("GET", "1", MalformedBody),
    Req("PUT", "1", ObjectBody(ValidA)),
    Req("PUT", "1", ObjectBody(ValidB)),
    Req("PUT", "9", ObjectBody(ValidA)),
    Req("PUT", "1", ObjectBody(NoFields)),
    Req("PUT", "1", ObjectBody([ValidA EXCEPT !.email = ObjWith(<<"toString">>)])),
    Req("PUT", "1", NoBody) }

NextLive ==
  \/ \E r \in LiveRequests : Receive(r)
  \/ \E r \in LiveRequests : ReceiveMalformed(r)
  \/ \E r \in LiveRequests : HandleGet(r)
  \/ \E r \in LiveRequests : HandlePut(r)

TimersFire ==
  \A r \in LiveRequests : WF_vars(HandleGet(r)) /\ WF_vars(HandlePut(r))

LiveSpec == Init /\ [][NextLive]_vars /\ TimersFire

Statuses == {200, 400, 404, 500}

\* a request in flight does not keep another one from arriving, nor any
\* request in flight from being resumed
NonBlocking ==
  /\ nreq < MaxReq =>
       \A q \in LiveRequests : ENABLED (Receive(q) \/ ReceiveMalformed(q))
  /\ \A r \in BagToSet(inflight) : ENABLED (HandleGet(r) \/ HandlePut(r))

\* C13: the delays block nothing, every answer is one response with status
\* 200, 400, 404 or 500, and every request in flight is eventually answered.
C13_EveryRequestAnswered ==
  /\ []NonBlocking
  /\ [][Answers => /\ Len(last'.out) = 1
                   /\ last'.out[1].status \in Statuses
                   /\ nreq' - ndone' = BagCardinality(inflight')]_vars
  /\ \A r \in LiveRequests :
       BagIn(r, inflight) ~> (last.req = r /\ ~BagIn(r, inflight))

\* two PUTs to "1" were in flight together; one of them has been answered
\* while the other still waits in its delay
C13_Witness ==
  /\ "1" \in overlap
  /\ last.req = Req("PUT", "1", ObjectBody(ValidB))
  /\ last.out[1].status = 200
  /\ BagIn(Req("PUT", "1", ObjectBody(ValidA)), inflight)
  /\ nreq - ndone = BagCardinality(inflight)

----------------------------------------------------------------------------
(***************************************************************************)
(* TraditionalForm: rendering, effects, event handlers and the             *)
(* continuations of its two requests.  State updates made in one handler   *)
(* or continuation are applied together; an effect whose dependencies a    *)
(* render changed is scheduled and runs before the next event is handled.  *)
(***************************************************************************)
MaxIssued == 3

FieldNames == {"firstName", "lastName", "email", "phoneNumber", "bio"}

OriginalOf(k) ==
  CASE k = "firstName" -> "originalFirstName"
    [] k = "lastName" -> "originalLastName"
    [] k = "email" -> "originalEmail"
    [] k = "phoneNumber" -> "originalPhoneNumber"
    [] k = "bio" -> "originalBio"

\* what the user types into the inputs
Typed ==
  [k \in FieldNames |->
     CASE k = "firstName" -> {Str(<<" ","Z">>), Str(<<" ">>)}
       [] k = "lastName" -> {}
       [] k = "email" -> {Str(<<"b","a","d">>)}
       [] k = "phoneNumber" -> {EmptyStr}
       [] k = "bio" -> {Str(<<"b">>)}]

\* the values the parent passes as userId
UserIdProps == {"1", "3", "9"}

RECURSIVE TrimStart(_)
TrimStart(s) ==
  IF s # <<>> /\ Head(s) \in WhiteSpace THEN TrimStart(Tail(s)) ELSE s

RECURSIVE TrimEnd(_)
TrimEnd(s) ==
  IF s # <<>> /\ s[Len(s)] \in WhiteSpace
  THEN TrimEnd(SubSeq(s, 1, Len(s) - 1)) ELSE s

\* x.trim(), for a string x
Trim(x) == Str(TrimEnd(TrimStart(x.v)))

\* `x || ''`
OrEmpty(x) == IF Truthy(x) THEN x ELSE EmptyStr

\* data.k, for the body of a response
Prop(data, k) ==
  IF data.kind = "object" /\ k \in DOMAIN data.rec THEN data.rec[k]
  ELSE Undefined

\* the dependencies of the dirty-check effect
DirtyDeps(f) ==
  <<f.firstName, f.lastName, f.email, f.phoneNumber, f.bio,
    f.originalFirstName, f.originalLastName, f.originalEmail,
    f.originalPhoneNumber, f.originalBio>>

\* a render with changed dependencies schedules the dirty-check effect
Rendered(f) ==
  [pending EXCEPT !.dirty = @ \/ DirtyDeps(f) # DirtyDeps(form)]

HasChangesIgnoringBio(f) ==
  \/ f.firstName # f.originalFirstName
  \/ f.lastName # f.originalLastName
  \/ f.email # f.originalEmail
  \/ f.phoneNumber # f.originalPhoneNumber

\* const hasChanges = firstName !== originalFirstName || ...
HasChanges(f) ==
  \/ f.firstName # f.originalFirstName
  \/ f.lastName # f.originalLastName
  \/ f.email # f.originalEmail
  \/ f.phoneNumber # f.originalPhoneNumber
  \/ f.bio # f.originalBio

\* the effects of the last render have run
Quiet == ~pending.fetch /\ ~pending.dirty

\* the form itself is rendered, not "Loading user data..." or the error
Visible == ~form.isLoadingData /\ form.fetchError = NoMessage

\* disabled={isSaving} of the inputs
InputsDisabled(f) == f.isSaving

\* the Save and Reset buttons: disabled={!isDirty || isSaving}
ButtonsEnabled(f) == ~(~f.isDirty \/ f.isSaving)

\* a request of the form: sent as number n, out is the response of the
\* service once it has answered
Sent(n, method, id, body) ==
  [n |-> n, method |-> method, userId |-> id, body |-> body, out |-> <<>>]

\* a response with which axios resolves (status 2xx)
Resolves(out) == out # <<>> /\ out[1].status >= 200 /\ out[1].status < 300

\* err.response?.data?.message || fallback
ErrorMessage(out, fallback) ==
  IF out # <<>> /\ out[1].message # <<>> THEN out[1].message ELSE <<fallback>>

\* both effects, in the order of their useEffect calls
FlushEffects ==
  /\ pending.fetch \/ pending.dirty
  /\ LET f1 == IF pending.fetch
               THEN [form EXCEPT !.isLoadingData = TRUE,
                                 !.fetchError = NoMessage]
               ELSE form
         f2 == IF pending.dirty
               THEN [f1 EXCEPT !.isDirty = HasChanges(form)]
               ELSE f1
     IN form' = f2
  /\ IF pending.fetch
     THEN /\ net' = net \cup {Sent(issued + 1, "GET", userIdProp, NoFields)}
          /\ issued' = issued + 1
     ELSE UNCHANGED <<net, issued>>
  /\ pending' = [fetch |-> FALSE, dirty |-> FALSE]
  /\ UNCHANGED <<userIdProp, loaded, modern>>
  /\ UNCHANGED svars

\* the parent renders the form with another userId
PropChange(id) ==
  /\ Quiet
  /\ id # userIdProp
  /\ issued < MaxIssued
  /\ userIdProp' = id
  /\ pending' = [pending EXCEPT !.fetch = TRUE]
  /\ UNCHANGED <<form, net, issued, loaded, modern>>
  /\ UNCHANGED svars

\* handleFirstNameChange ... handleBioChange
HandleChange(k, v) ==
  /\ Quiet /\ Visible
  /\ ~InputsDisabled(form)
  /\ v # form[k]
  /\ LET f == [form EXCEPT ![k] = v,
                           !.successMessage = NoMessage,
                           !.saveError = NoMessage]
     IN form' = f /\ pending' = Rendered(f)
  /\ UNCHANGED <<userIdProp, net, issued, loaded, modern>>
  /\ UNCHANGED svars

ResetKeepsMessages(f) ==
  [f EXCEPT !.firstName = f.originalFirstName,
            !.lastName = f.originalLastName,
            !.email = f.originalEmail,
            !.phoneNumber = f.originalPhoneNumber,
            !.bio = f.originalBio]

\* the state updates of handleReset
ResetForm(f) ==
  [f EXCEPT !.firstName = f.originalFirstName,
            !.lastName = f.originalLastName,
            !.email = f.originalEmail,
            !.phoneNumber = f.originalPhoneNumber,
            !.bio = f.originalBio,
            !.successMessage = NoMessage,
            !.saveError = NoMessage]

HandleReset ==
  /\ Quiet /\ Visible
  /\ ButtonsEnabled(form)
  /\ form' = ResetForm(form)
  /\ pending' = Rendered(ResetForm(form))
  /\ UNCHANGED <<userIdProp, net, issued, loaded, modern>>
  /\ UNCHANGED svars

\* !firstName.trim() || !lastName.trim() || !email.trim()
FailsValidation(f) ==
  \/ ~Truthy(Trim(f.firstName))
  \/ ~Truthy(Trim(f.lastName))
  \/ ~Truthy(Trim(f.email))

\* updateData
UpdateData(f) ==
  Fields(Undefined, Trim(f.email), Trim(f.firstName), Trim(f.lastName),
         OrNull(Trim(f.phoneNumber)), OrNull(Trim(f.bio)))

RequiredMessage == <<"First name, last name, and email are required">>

SubmittingNotSaving(f) ==
  [f EXCEPT !.saveError = NoMessage, !.successMessage = NoMessage]

\* the state updates of handleSubmit before its request is sent
Submitting(f) ==
  [f EXCEPT !.isSaving = TRUE,
            !.saveError = NoMessage,
            !.successMessage = NoMessage]

\* handleSubmit, up to `await AXIOS_INSTANCE.put(...)`
HandleSubmit ==
  /\ Quiet /\ Visible
  /\ ButtonsEnabled(form)
  /\ issued < MaxIssued
  /\ IF FailsValidation(form)
     THEN /\ form' = [form EXCEPT !.saveError = RequiredMessage]
          /\ UNCHANGED <<net, issued>>
     ELSE /\ form' = Submitting(form)
          /\ net' = net \cup
                      {Sent(issued + 1, "PUT", userIdProp, UpdateData(form))}
          /\ issued' = issued + 1
  /\ UNCHANGED <<userIdProp, pending, loaded, modern>>
  /\ UNCHANGED svars

\* the service answers a request of the form
ServiceAnswers(q) ==
  /\ q \in net
  /\ q.out = <<>>
  /\ LET res == IF q.method = "GET"
                THEN GetHandler(users, Req("GET", q.userId, NoBody))
                ELSE PutHandler(users,
                                Req("PUT", q.userId, ObjectBody(q.body)),
                                FALSE)
     IN /\ users' = res.users
        /\ net' = (net \ {q}) \cup {[q EXCEPT !.out = res.out]}
  /\ UNCHANGED <<inflight, nreq, ndone, last, commits, overlap>>
  /\ UNCHANGED <<form, userIdProp, pending, issued, loaded, modern>>

FetchedMessage == "Failed to load user data"

\* fetchUserData after `await AXIOS_INSTANCE.get(...)`, for the outcome out
\* of the request (<<>>: no response at all)
Fetched(f, out) ==
  IF Resolves(out)
  THEN LET user == out[1].body
       IN [f EXCEPT !.firstName = Prop(user, "firstName"),
                    !.lastName = Prop(user, "lastName"),
                    !.email = Prop(user, "email"),
                    !.phoneNumber = OrEmpty(Prop(user, "phoneNumber")),
                    !.bio = OrEmpty(Prop(user, "bio")),
                    !.originalFirstName = Prop(user, "firstName"),
                    !.originalLastName = Prop(user, "lastName"),
                    !.originalEmail = Prop(user, "email"),
                    !.originalPhoneNumber = OrEmpty(Prop(user, "phoneNumber")),
                    !.originalBio = OrEmpty(Prop(user, "bio")),
                    !.isLoadingData = FALSE]
  ELSE [f EXCEPT !.fetchError = ErrorMessage(out, FetchedMessage),
                 !.isLoadingData = FALSE]

\* a GET of the form settles: with the response of the service, or failed
\* without one
FetchSettles(q, lost) ==
  /\ q \in net
  /\ q.method = "GET"
  /\ lost \/ q.out # <<>>
  /\ LET f == Fetched(form, IF lost THEN <<>> ELSE q.out)
     IN form' = f /\ pending' = Rendered(f)
  /\ net' = net \ {q}
  /\ loaded' = [n |-> q.n, userId |-> q.userId]
  /\ UNCHANGED <<userIdProp, issued, modern>>
  /\ UNCHANGED svars

SuccessMessage == <<"Profile updated successfully!">>
SavedMessage == "Failed to update profile"

SavedStillSaving(f, out) ==
  IF Resolves(out)
  THEN [f EXCEPT !.successMessage = SuccessMessage, !.isSaving = FALSE]
  ELSE [f EXCEPT !.saveError = ErrorMessage(out, SavedMessage)]

\* handleSubmit after `await AXIOS_INSTANCE.put(...)`, for the outcome out
Saved(f, out) ==
  IF Resolves(out)
  THEN LET updatedUser == out[1].body
       IN [f EXCEPT !.originalFirstName = Prop(updatedUser, "firstName"),
                    !.originalLastName = Prop(updatedUser, "lastName"),
                    !.originalEmail = Prop(updatedUser, "email"),
                    !.originalPhoneNumber =
                        OrEmpty(Prop(updatedUser, "phoneNumber")),
                    !.originalBio = OrEmpty(Prop(updatedUser, "bio")),
                    !.firstName = Prop(updatedUser, "firstName"),
                    !.lastName = Prop(updatedUser, "lastName"),
                    !.email = Prop(updatedUser, "email"),
                    !.phoneNumber = OrEmpty(Prop(updatedUser, "phoneNumber")),
                    !.bio = OrEmpty(Prop(updatedUser, "bio")),
                    !.successMessage = SuccessMessage,
                    !.isSaving = FALSE]
  ELSE [f EXCEPT !.saveError = ErrorMessage(out, SavedMessage),
                 !.isSaving = FALSE]

\* the PUT of the form settles
SaveSettles(q, lost) ==
  /\ q \in net
  /\ q.method = "PUT"
  /\ lost \/ q.out # <<>>
  /\ LET f == Saved(form, IF lost THEN <<>> ELSE q.out)
     IN form' = f /\ pending' = Rendered(f)
  /\ net' = net \ {q}
  /\ UNCHANGED <<userIdProp, issued, loaded, modern>>
  /\ UNCHANGED svars

(***************************************************************************)
(* ModernForm.  isDirty is formState.isDirty of useForm, isSaving is       *)
(* isPending of the mutation: true from the call of updateProfile until    *)
(* its request settles.  puts counts its PUT requests in flight.           *)
(***************************************************************************)
\* the user edits a registered input (disabled={isSaving})
ModernChange ==
  /\ ~InputsDisabled(modern)
  /\ ~modern.isDirty
  /\ modern' = [modern EXCEPT !.isDirty = TRUE]
  /\ UNCHANGED <<form, userIdProp, pending, net, issued, loaded>>
  /\ UNCHANGED svars

\* onClick={() => reset()}
ModernReset ==
  /\ ButtonsEnabled(modern)
  /\ modern' = [modern EXCEPT !.isDirty = FALSE]
  /\ UNCHANGED <<form, userIdProp, pending, net, issued, loaded>>
  /\ UNCHANGED svars

\* onSubmit: updateProfile({ userId, data }, { onSuccess })
ModernSubmit ==
  /\ ButtonsEnabled(modern)
  /\ modern.puts < MaxIssued
  /\ modern' = [modern EXCEPT !.isSaving = TRUE, !.puts = @ + 1]
  /\ UNCHANGED <<form, userIdProp, pending, net, issued, loaded>>
  /\ UNCHANGED svars

\* the mutation settles; onSuccess resets the form to the saved values
ModernSettles(ok) ==
  /\ modern.puts > 0
  /\ modern' = [isDirty |-> IF ok THEN FALSE ELSE modern.isDirty,
                isSaving |-> FALSE,
                puts |-> modern.puts - 1]
  /\ UNCHANGED <<form, userIdProp, pending, net, issued, loaded>>
  /\ UNCHANGED svars

NextForm ==
  \/ FlushEffects
  \/ \E id \in UserIdProps : PropChange(id)
  \/ \E k \in FieldNames : \E v \in Typed[k] : HandleChange(k, v)
  \/ HandleReset
  \/ HandleSubmit
  \/ \E q \in net : ServiceAnswers(q)
  \/ \E q \in net : \E lost \in BOOLEAN : FetchSettles(q, lost)
  \/ \E q \in net : \E lost \in BOOLEAN : SaveSettles(q, lost)
  \/ ModernChange
  \/ ModernReset
  \/ ModernSubmit
  \/ \E ok \in BOOLEAN : ModernSettles(ok)

FormSpec == Init /\ [][NextForm]_vars

(***************************************************************************)
(* Claims about TraditionalForm, checked under FormSpec.                   *)
(***************************************************************************)
\* some current field differs from its original
Differs(f) == \E k \in FieldNames : f[k] # f[OriginalOf(k)]

\* C16: whenever no effect is pending, isDirty is true exactly when at least
\* one of the five current field values differs from its original value,
\* after any sequence of edits, resets, loads and saves.
C16_DirtyIffDiffers == Quiet => (form.isDirty <=> Differs(form))

\* settled and dirty through the bio alone, after a load and an edit
C16_Witness ==
  /\ Quiet /\ Visible
  /\ form.isDirty
  /\ form.bio # form.originalBio
  /\ \A k \in FieldNames \ {"bio"} : form[k] = form[OriginalOf(k)]

\* what handleReset leaves behind: the fields are the originals, the
\* originals are as before, both messages are cleared and the dirty check
\* is scheduled
ResetRestores ==
  /\ \A k \in FieldNames : form'[k] = form[OriginalOf(k)]
  /\ \A k \in FieldNames : form'[OriginalOf(k)] = form[OriginalOf(k)]
  /\ form'.successMessage = NoMessage
  /\ form'.saveError = NoMessage
  /\ pending'.dirty

\* the dirty check that runs on fields equal to their originals
SettlesClean ==
  (pending.dirty /\ ~Differs(form)) => ~form'.isDirty /\ ~ButtonsEnabled(form')

\* C17: handleReset sets the five fields back to their originals, clears the
\* success message and the save error and leaves the originals untouched;
\* once the effects have run after a reset isDirty is false, so Save and
\* Reset are disabled.
C17_ResetRestoresOriginals ==
  [][(HandleReset => ResetRestores) /\ (FlushEffects => SettlesClean)]_vars

\* just after a reset: the fields are back at their originals, the messages
\* are gone and the dirty check has not run yet
C17_Witness ==
  /\ Visible
  /\ pending.dirty
  /\ form.isDirty
  /\ ~Differs(form)
  /\ form.successMessage = NoMessage /\ form.saveError = NoMessage
  /\ ~form.isSaving
  /\ \A q \in net : q.method # "GET"

\* a string of white space only (the empty string included)
Blank(x) == \A i \in 1..Len(x.v) : x.v[i] \in WhiteSpace

\* what the form shows for field k of a profile
Shown(profile, k) ==
  IF k \in {"phoneNumber", "bio"} /\ profile.rec[k] = Null
  THEN EmptyStr
  ELSE profile.rec[k]

\* the step in which the PUT q of the form settles
PutSettles(q) ==
  q \in net /\ q.method = "PUT" /\ q.n \notin {r.n : r \in net'}

\* the state handleSubmit leaves when its PUT settled with outcome o
\* (<<>>: without a response)
SaveOutcome(o) ==
  /\ ~form'.isSaving
  /\ IF Resolves(o)
     THEN /\ \A k \in FieldNames :
               /\ form'[k] = Shown(o[1].body, k)
               /\ form'[OriginalOf(k)] = Shown(o[1].body, k)
          /\ form'.successMessage = SuccessMessage
          /\ pending'.dirty \/ ~form'.isDirty
     ELSE /\ form'.saveError # NoMessage
          /\ o # <<>> => form'.saveError = o[1].message
          /\ DirtyDeps(form') = DirtyDeps(form)

\* what a submit does before its request is sent
SubmitOutcome ==
  IF Blank(form.firstName) \/ Blank(form.lastName) \/ Blank(form.email)
  THEN /\ form'.saveError # NoMessage
       /\ ~form'.isSaving
       /\ net' = net
  ELSE /\ form'.isSaving
       /\ \E q \in net' \ net : q.method = "PUT" /\ net' = net \cup {q}

C18_WitnessRefused ==
  /\ form.saveError = <<"Invalid email format">>
  /\ ~form.isSaving

\* the PUT requests of TraditionalForm that have not settled
PutsInFlight == {q \in net : q.method = "PUT"}

\* the controls of both forms while a save is pending
DisabledWhileSaving ==
  /\ PutsInFlight # {} => InputsDisabled(form) /\ ~ButtonsEnabled(form)
  /\ modern.puts > 0 => InputsDisabled(modern) /\ ~ButtonsEnabled(modern)
  /\ ButtonsEnabled(form) => form.isDirty /\ ~form.isSaving
  /\ ButtonsEnabled(modern) => modern.isDirty /\ ~modern.isSaving
  /\ Cardinality(PutsInFlight) <= 1
  /\ modern.puts <= 1

\* a step during which a PUT of TraditionalForm stays in flight
StaysInFlight == \E q \in PutsInFlight : q.n \in {r.n : r \in net'}

\* a step in which a GET of TraditionalForm settles
GetSettles ==
  \E q \in net : q.method = "GET" /\ q.n \notin {r.n : r \in net'}

FieldsKept == \A k \in FieldNames : form'[k] = form[k]

\* C19 as stated: in both forms the buttons and inputs are disabled while a
\* save is pending and Save is enabled only when dirty and not saving; hence
\* never more than one PUT in flight, and the fields cannot change between
\* sending a PUT and receiving its response.
C19_FieldsFrozenWhileSaving ==
  []DisabledWhileSaving /\ [][StaysInFlight => FieldsKept]_vars

\* C19, amended: in both forms the buttons and inputs are disabled while a
\* save is pending and Save is enabled only when dirty and not saving; hence
\* never more than one PUT in flight, and the user cannot change the fields
\* between sending a PUT and receiving its response: in TraditionalForm they
\* change in that time only when a fetch of the profile settles.
C19_OnlyAFetchChangesFieldsWhileSaving ==
  []DisabledWhileSaving /\ [][StaysInFlight /\ ~FieldsKept => GetSettles]_vars

\* a save of user 1 is pending and the fetch that a change of userId
\* started after it has put the profile of user 3 into the fields
C19_Witness ==
  /\ \E q \in PutsInFlight : q.userId = "1" /\ loaded.n > q.n
  /\ loaded.userId = "3"
  /\ form.isSaving
  /\ ~form.isLoadingData
  /\ form.originalFirstName = Str(<<"B","o","b">>)

\* the GET requests of TraditionalForm that have not settled
GetsInFlight == {q \in net : q.method = "GET"}

\* every fetch the form has started has settled
FetchesDone == ~pending.fetch /\ GetsInFlight = {}

\* C20: when userId changes while an earlier fetch is in flight, then once
\* all fetches have completed, in whatever order, the fields and originals
\* are those the fetch for the latest userId delivered, and isLoadingData is
\* false only when the latest fetch has finished.
C20_LatestFetchWins ==
  /\ FetchesDone => loaded.userId = userIdProp
  /\ (~pending.fetch /\ ~form.isLoadingData) => GetsInFlight = {}

====
